---- MODULE Spec2Model ----
(***************************************************************************)
(* A model of acid-list (src/src/lib.rs): a set of doubly linked lists     *)
(* kept in a memory-mapped file.  The file holds a header, an array of     *)
(* list heads and an array of nodes; every link is a NodeIndex word whose  *)
(* top bit says whether it names a head or a node.                         *)
(*                                                                         *)
(* TLC's integers are 32-bit signed, so the u32 NodeIndex of the source    *)
(* is modelled as an IndexBits-bit word: HEAD_FLAG is the top bit of that  *)
(* word and the wrapping arithmetic is modulo 2^IndexBits.  Byte sizes     *)
(* (u64 in the source) are kept as they are; no sum of them overflows.     *)
(***************************************************************************)
EXTENDS Integers, Sequences, FiniteSets, TLC

\* ------------------------------------------------------------------ bounds

\* Width of a NodeIndex word in the model (32 in the source).
IndexBits == 5

\* Largest heads / nodes count of the lists the list operations run on.
MaxHeads == 2

MaxNodes == 3

\* Payloads are written on the lists of at most this many nodes.
MaxSetNodes == 2

\* The nodes of the list an LRU replay runs on, and the accesses of a replay.
LruNodes == 10

MaxAccesses == 3

\* --------------------------------------------------------------- constants

NodeIndexLimit == 2 ^ IndexBits

NodeIndexValues == 0 .. (NodeIndexLimit - 1)

\* const HEAD_FLAG: NodeIndex = 1 << 31
HEAD_FLAG == 2 ^ (IndexBits - 1)

\* const HEADER_MAGIC: u32 = 0x41434944
HEADER_MAGIC == 1094927172

\* mem::size_of::<Header<T>>(): four u32 words and a zero-sized marker
SIZE_OF_HEADER == 16

\* mem::size_of::<Link>() and mem::align_of::<Link>(): two u32 words
SIZE_OF_LINK == 8

ALIGN_OF_LINK == 4

\* usize::max_value() of the narrow (32-bit) target, where usize is as wide
\* as NodeIndex.  The byte sizes are not scaled with the index word, so the
\* model's narrow usize is two bits wider than its NodeIndex: that keeps what
\* the widths of the source give, 2^31 Links (8 bytes each) do not fit in it.
\* The wide target's usize is as wide as the u64 a file length is measured in.
NARROW_USIZE_MAX == 2 ^ (IndexBits + 2) - 1

\* A payload type T, given by its size and alignment.  [u8; 32] is the type
\* of the examples; [u8; 16] and u64 stand for other callers' types.
U8x32 == [size |-> 32, align |-> 1]

U8x16 == [size |-> 16, align |-> 1]

U64 == [size |-> 8, align |-> 8]

PayloadTypes == {U8x32, U8x16, U64}

\* The payload values of the model; a fresh file is zero-filled.
PayloadValues == {0, 1}

Max(a, b) == IF a >= b THEN a ELSE b

\* ---------------------------------------------------------- index encoding

\* LinkIndex::Node(n) and LinkIndex::Head(n)
LinkNode(n) == [tag |-> "Node", idx |-> n]

LinkHead(n) == [tag |-> "Head", idx |-> n]

LinkIndexValues == {LinkNode(n) : n \in NodeIndexValues} \cup {LinkHead(n) : n \in NodeIndexValues}

\* idx & HEAD_FLAG == 0
flag_clear(idx) == idx < HEAD_FLAG

\* n | HEAD_FLAG
or_flag(n) == IF flag_clear(n) THEN n + HEAD_FLAG ELSE n

\* n & !HEAD_FLAG
and_not_flag(n) == IF flag_clear(n) THEN n ELSE n - HEAD_FLAG

to_node(li) == IF li.tag = "Node" THEN li.idx ELSE or_flag(li.idx)

from_node(idx) == IF flag_clear(idx) THEN LinkNode(idx) ELSE LinkHead(and_not_flag(idx))

wrapping_sub(a, b) == (a - b + NodeIndexLimit) % NodeIndexLimit

wrapping_add(a, b) == (a + b) % NodeIndexLimit

\* ------------------------------------------------------- header and layout

\* (offset + (align - 1)) / align * align
align_to(align, offset) == ((offset + (align - 1)) \div align) * align

\* Node<T> is repr(C) { link: Link, contents: T }
align_of_node(T) == Max(ALIGN_OF_LINK, T.align)

size_of_node(T) == align_to(align_of_node(T), SIZE_OF_LINK + T.size)

\* Header::new with its two counts taken for one another.
new_header_swapped(T, heads, nodes) ==
    [magic |-> HEADER_MAGIC, data_size |-> T.size, heads |-> nodes, nodes |-> heads]

\* Header::new
new_header(T, heads, nodes) ==
    [magic |-> HEADER_MAGIC, data_size |-> T.size, heads |-> heads, nodes |-> nodes]

heads_offset(T, header) == align_to(ALIGN_OF_LINK, SIZE_OF_HEADER)

nodes_offset(T, header) ==
    align_to(align_of_node(T), heads_offset(T, header) + header.heads * SIZE_OF_LINK)

file_size(T, header) == nodes_offset(T, header) + header.nodes * size_of_node(T)

\* ------------------------------------------------------------- the mapping

\* A Link of the file: two raw index words.
MkLink(p, n) == [previous |-> p, next |-> n]

ZeroLink == MkLink(0, 0)

\* The bytes of a file of the shape `header`, all zero behind the header:
\* what set_len followed by the header write leaves.
zeroed_file(header, len) ==
    [len |-> len,
     header |-> header,
     heads |-> [h \in 0 .. (header.heads - 1) |-> ZeroLink],
     nodes |-> [n \in 0 .. (header.nodes - 1) |-> [link |-> ZeroLink, contents |-> 0]]]

\* A running operation: the mapped image, whether an assertion has aborted
\* the process, the accesses to the mapping made so far, and the image the
\* file holds right after each write (what a crash at that point leaves).
Start(img) == [img |-> img, aborted |-> FALSE, log |-> <<>>, trace |-> <<>>]

Abort(m) == [m EXCEPT !.aborted = TRUE]

Event(ev, li, field) == [ev |-> ev, slot |-> li, field |-> field]

Logged(m, ev, li, field) == [m EXCEPT !.log = Append(@, Event(ev, li, field))]

\* The asserts of head_ptr and node_ptr.
head_in_range(img, idx) == idx < img.header.heads

node_in_range(img, idx) == idx < img.header.nodes

in_range(img, li) ==
    IF li.tag = "Node" THEN node_in_range(img, li.idx) ELSE head_in_range(img, li.idx)

\* AcidList::link, for an index the asserts accept.
link(img, li) == IF li.tag = "Node" THEN img.nodes[li.idx].link ELSE img.heads[li.idx]

\* The image with the Link of slot li replaced by l.
with_link(img, li, l) ==
    IF li.tag = "Node"
    THEN [img EXCEPT !.nodes[li.idx].link = l]
    ELSE [img EXCEPT !.heads[li.idx] = l]

\* *self.link_mut(idx) = l, self.link_mut(idx).previous = v and
\* self.link_mut(idx).next = v: the raw word is decoded, the slot's pointer
\* asserted, the field written.
link_mut_store(m, idx, field, l) ==
    LET li == from_node(idx) IN
    IF m.aborted THEN m
    ELSE IF ~in_range(m.img, li) THEN Abort(m)
    ELSE Logged([m EXCEPT !.img = with_link(m.img, li, l),
                          !.trace = Append(@, with_link(m.img, li, l))],
                "write", li, field)

link_mut_assign(m, idx, l) == link_mut_store(m, idx, "link", l)

link_mut_set_previous(m, idx, v) ==
    LET li == from_node(idx) IN
    IF m.aborted \/ ~in_range(m.img, li) THEN link_mut_store(m, idx, "previous", ZeroLink)
    ELSE link_mut_store(m, idx, "previous", [link(m.img, li) EXCEPT !.previous = v])

link_mut_set_next(m, idx, v) ==
    LET li == from_node(idx) IN
    IF m.aborted \/ ~in_range(m.img, li) THEN link_mut_store(m, idx, "next", ZeroLink)
    ELSE link_mut_store(m, idx, "next", [link(m.img, li) EXCEPT !.next = v])

\* self.link(li) as a step of an operation: the assert, then the read.
link_read(m, li) ==
    IF m.aborted THEN m
    ELSE IF ~in_range(m.img, li) THEN Abort(m)
    ELSE Logged(m, "read", li, "link")

\* ------------------------------------------------------------ create, open

\* The target's pointer width decides usize: `n > usize::max_value() as u64`
\* is never true where usize is 64 bits wide.
exceeds_usize(target, n) == target = 32 /\ n > NARROW_USIZE_MAX

Targets == {32, 64}

\* Which system call of an operation fails, if any.
OsFaults == {"none", "flock", "seek", "mmap", "munmap"}

\* open returns an error after the file was mapped: the AcidList value goes
\* out of scope, whose Drop unmaps and panics if that fails, then the File.
open_rejects(err, fault) ==
    IF fault = "munmap"
    THEN [result |-> "abort",
          events |-> <<"flock", "seek", "mmap", "read_header", "munmap_failed", "close_fd">>]
    ELSE [result |-> err,
          events |-> <<"flock", "seek", "mmap", "read_header", "munmap", "close_fd">>]

\* open without the comparison of the file's length with the header's.
open_no_length_check(f, T, target, fault) ==
    IF fault = "flock" THEN [result |-> "OsError", events |-> <<"flock_failed", "close_fd">>]
    ELSE IF fault = "seek"
    THEN [result |-> "OsError", events |-> <<"flock", "seek_failed", "close_fd">>]
    ELSE IF exceeds_usize(target, f.len)
    THEN [result |-> "WrongArchitecture", events |-> <<"flock", "seek", "close_fd">>]
    ELSE IF f.len < SIZE_OF_HEADER
    THEN [result |-> "NotInitialized", events |-> <<"flock", "seek", "close_fd">>]
    ELSE IF fault = "mmap"
    THEN [result |-> "OsError", events |-> <<"flock", "seek", "mmap_failed", "close_fd">>]
    ELSE IF f.header.magic # HEADER_MAGIC THEN open_rejects("WrongArchitecture", fault)
    ELSE IF f.header.data_size # T.size THEN open_rejects("WrongDataType", fault)
    ELSE IF f.header.heads < 1 THEN open_rejects("NotInitialized", fault)
    ELSE [result |-> "Ok", events |-> <<"flock", "seek", "mmap", "read_header", "close_fd">>]

\* open that maps the file and reads its header before it looks at the length.
open_maps_first(f, T, target, fault) ==
    IF fault = "flock" THEN [result |-> "OsError", events |-> <<"flock_failed", "close_fd">>]
    ELSE IF fault = "seek"
    THEN [result |-> "OsError", events |-> <<"flock", "seek_failed", "close_fd">>]
    ELSE IF exceeds_usize(target, f.len)
    THEN [result |-> "WrongArchitecture", events |-> <<"flock", "seek", "close_fd">>]
    ELSE IF fault = "mmap"
    THEN [result |-> "OsError", events |-> <<"flock", "seek", "mmap_failed", "close_fd">>]
    ELSE IF f.len < SIZE_OF_HEADER THEN open_rejects("NotInitialized", fault)
    ELSE IF f.header.magic # HEADER_MAGIC THEN open_rejects("WrongArchitecture", fault)
    ELSE IF f.header.data_size # T.size THEN open_rejects("WrongDataType", fault)
    ELSE IF \/ f.header.heads < 1
            \/ exceeds_usize(target, file_size(T, f.header))
            \/ f.len # file_size(T, f.header)
    THEN open_rejects("NotInitialized", fault)
    ELSE [result |-> "Ok", events |-> <<"flock", "seek", "mmap", "read_header", "close_fd">>]

\* open that returns its errors with the mapping left in place.
open_leaks_mapping(f, T, target, fault) ==
    IF fault = "flock" THEN [result |-> "OsError", events |-> <<"flock_failed", "close_fd">>]
    ELSE IF fault = "seek"
    THEN [result |-> "OsError", events |-> <<"flock", "seek_failed", "close_fd">>]
    ELSE IF exceeds_usize(target, f.len)
    THEN [result |-> "WrongArchitecture", events |-> <<"flock", "seek", "close_fd">>]
    ELSE IF f.len < SIZE_OF_HEADER
    THEN [result |-> "NotInitialized", events |-> <<"flock", "seek", "close_fd">>]
    ELSE IF fault = "mmap"
    THEN [result |-> "OsError", events |-> <<"flock", "seek", "mmap_failed", "close_fd">>]
    ELSE IF f.header.magic # HEADER_MAGIC
    THEN [result |-> "WrongArchitecture",
          events |-> <<"flock", "seek", "mmap", "read_header", "close_fd">>]
    ELSE IF f.header.data_size # T.size
    THEN [result |-> "WrongDataType",
          events |-> <<"flock", "seek", "mmap", "read_header", "close_fd">>]
    ELSE IF \/ f.header.heads < 1
            \/ exceeds_usize(target, file_size(T, f.header))
            \/ f.len # file_size(T, f.header)
    THEN [result |-> "NotInitialized",
          events |-> <<"flock", "seek", "mmap", "read_header", "close_fd">>]
    ELSE [result |-> "Ok", events |-> <<"flock", "seek", "mmap", "read_header", "close_fd">>]

\* AcidList::open on a file of `f.len` bytes, for a caller whose payload type
\* is T.  The result and the order of the events of the call: the system
\* calls, the first read of the header through the mapping, and the close of
\* the descriptor when the File goes out of scope at the return.
open(f, T, target, fault) ==
    IF fault = "flock" THEN [result |-> "OsError", events |-> <<"flock_failed", "close_fd">>]
    ELSE IF fault = "seek"
    THEN [result |-> "OsError", events |-> <<"flock", "seek_failed", "close_fd">>]
    ELSE IF exceeds_usize(target, f.len)
    THEN [result |-> "WrongArchitecture", events |-> <<"flock", "seek", "close_fd">>]
    ELSE IF f.len < SIZE_OF_HEADER
    THEN [result |-> "NotInitialized", events |-> <<"flock", "seek", "close_fd">>]
    ELSE IF fault = "mmap"
    THEN [result |-> "OsError", events |-> <<"flock", "seek", "mmap_failed", "close_fd">>]
    ELSE IF f.header.magic # HEADER_MAGIC THEN open_rejects("WrongArchitecture", fault)
    ELSE IF f.header.data_size # T.size THEN open_rejects("WrongDataType", fault)
    ELSE IF \/ f.header.heads < 1
            \/ exceeds_usize(target, file_size(T, f.header))
            \/ f.len # file_size(T, f.header)
    THEN open_rejects("NotInitialized", fault)
    ELSE [result |-> "Ok", events |-> <<"flock", "seek", "mmap", "read_header", "close_fd">>]

\* for head_idx in 0..header.heads: the head's Link points to itself.  An
\* assertion that fails in link_mut ends the loop.
RECURSIVE init_heads(_, _, _)
init_heads(m, head_idx, heads) ==
    IF m.aborted \/ head_idx >= heads THEN m
    ELSE LET idx == to_node(LinkHead(head_idx)) IN
         init_heads(link_mut_assign(m, idx, MkLink(idx, idx)), head_idx + 1, heads)

\* for node_idx in 0..header.nodes: the node's Link names its numeric neighbours
RECURSIVE init_nodes(_, _, _)
init_nodes(m, node_idx, nodes) ==
    IF m.aborted \/ node_idx >= nodes THEN m
    ELSE init_nodes(link_mut_assign(m, node_idx,
                        MkLink(wrapping_sub(node_idx, 1), wrapping_add(node_idx, 1))),
                    node_idx + 1, nodes)

\* The tail of create: all nodes threaded into list 0.
thread_list0(m, header) ==
    IF header.nodes > 0
    THEN LET head_idx == to_node(LinkHead(0))
             m1 == init_nodes(m, 0, header.nodes)
             m2 == link_mut_set_previous(m1, 0, head_idx)
             m3 == link_mut_set_next(m2, header.nodes - 1, head_idx)
         IN link_mut_assign(m3, head_idx, MkLink(header.nodes - 1, 0))
    ELSE m

\* AcidList::create on a path where no file exists: the file is sized and its
\* header written, then opened and its links initialised.  A failed open
\* leaves the sized file behind.
create(T, header, target, fault) ==
    LET f == zeroed_file(header, file_size(T, header))
        o == open(f, T, target, fault)
    IN IF o.result = "abort"
       THEN [result |-> o.result, m |-> Abort(Start(f)), events |-> o.events]
       ELSE IF o.result # "Ok"
       THEN [result |-> o.result, m |-> Start(f), events |-> o.events]
       ELSE LET m == thread_list0(init_heads(Start(f), 0, header.heads), header)
            IN [result |-> IF m.aborted THEN "abort" ELSE "Ok", m |-> m, events |-> o.events]

\* ---------------------------------------------------------- list operations

\* move_to that parks the node as a list of its own between the unlinking
\* and the splicing, and gives it its new links last.
move_to_parks_node(m, from_idx, from, to) ==
    LET m1 == link_mut_set_previous(m, from.next, from.previous)
        m2 == link_mut_set_next(m1, from.previous, from.next)
        m3 == link_mut_assign(m2, from_idx, MkLink(from_idx, from_idx))
        m4 == link_mut_set_previous(m3, to.next, from_idx)
        m5 == link_mut_set_next(m4, to.previous, from_idx)
    IN link_mut_assign(m5, from_idx, to)

\* move_to that splices the node in one slot too far: the write meant for the
\* new successor goes to the slot behind it.
move_to_splices_past_anchor(m, from_idx, from, to) ==
    LET m1 == link_mut_set_previous(m, from.next, from.previous)
        m2 == link_mut_set_next(m1, from.previous, from.next)
        m3 == link_mut_assign(m2, from_idx, to)
        m4 == link_mut_set_previous(m3, link(m3.img, from_node(to.next)).next, from_idx)
    IN link_mut_set_next(m4, to.previous, from_idx)

\* move_to without its last write: the new predecessor is not spliced.
move_to_four_writes(m, from_idx, from, to) ==
    LET m1 == link_mut_set_previous(m, from.next, from.previous)
        m2 == link_mut_set_next(m1, from.previous, from.next)
        m3 == link_mut_assign(m2, from_idx, to)
    IN link_mut_set_previous(m3, to.next, from_idx)

\* move_to without the two unlinking writes.
move_to_no_unlink(m, from_idx, from, to) ==
    LET m3 == link_mut_assign(m, from_idx, to)
        m4 == link_mut_set_previous(m3, to.next, from_idx)
    IN link_mut_set_next(m4, to.previous, from_idx)

\* AcidList::move_to: the five link writes, in the order of the source.
move_to(m, from_idx, from, to) ==
    LET m1 == link_mut_set_previous(m, from.next, from.previous)
        m2 == link_mut_set_next(m1, from.previous, from.next)
        m3 == link_mut_assign(m2, from_idx, to)
        m4 == link_mut_set_previous(m3, to.next, from_idx)
    IN link_mut_set_next(m4, to.previous, from_idx)

\* move_before that puts the node behind the anchor instead of before it.
move_before_inserts_after(m, from_idx, to_next_idx) ==
    IF LinkNode(from_idx) = to_next_idx THEN Abort(m)
    ELSE LET m1 == link_read(m, LinkNode(from_idx)) IN
         IF m1.aborted THEN m1
         ELSE LET from == link(m.img, LinkNode(from_idx)) IN
              IF from.previous = to_node(to_next_idx) THEN m1
              ELSE LET m2 == link_read(m1, to_next_idx) IN
                   IF m2.aborted THEN m2
                   ELSE move_to(m2, from_idx, from,
                                MkLink(to_node(to_next_idx), link(m.img, to_next_idx).next))

\* move_before without its first assertion.
move_before_no_assert(m, from_idx, to_next_idx) ==
    LET m1 == link_read(m, LinkNode(from_idx)) IN
    IF m1.aborted THEN m1
    ELSE LET from == link(m.img, LinkNode(from_idx)) IN
         IF from.next = to_node(to_next_idx) THEN m1
         ELSE LET m2 == link_read(m1, to_next_idx) IN
              IF m2.aborted THEN m2
              ELSE move_to(m2, from_idx, from,
                           MkLink(link(m.img, to_next_idx).previous, to_node(to_next_idx)))

\* move_before without the early return for a node already in place.
move_before_no_short_circuit(m, from_idx, to_next_idx) ==
    IF LinkNode(from_idx) = to_next_idx THEN Abort(m)
    ELSE LET m1 == link_read(m, LinkNode(from_idx)) IN
         IF m1.aborted THEN m1
         ELSE LET from == link(m.img, LinkNode(from_idx))
                  m2 == link_read(m1, to_next_idx)
              IN IF m2.aborted THEN m2
                 ELSE move_to(m2, from_idx, from,
                              MkLink(link(m.img, to_next_idx).previous, to_node(to_next_idx)))

\* AcidList::move_before
move_before(m, from_idx, to_next_idx) ==
    IF LinkNode(from_idx) = to_next_idx THEN Abort(m)
    ELSE LET m1 == link_read(m, LinkNode(from_idx)) IN
         IF m1.aborted THEN m1
         ELSE LET from == link(m.img, LinkNode(from_idx)) IN
              IF from.next = to_node(to_next_idx) THEN m1
              ELSE LET m2 == link_read(m1, to_next_idx) IN
                   IF m2.aborted THEN m2
                   ELSE move_to(m2, from_idx, from,
                                MkLink(link(m.img, to_next_idx).previous, to_node(to_next_idx)))

\* move_after that takes the new successor from the wrong field.
move_after_wrong_field(m, from_idx, to_previous_idx) ==
    IF LinkNode(from_idx) = to_previous_idx THEN Abort(m)
    ELSE LET m1 == link_read(m, LinkNode(from_idx)) IN
         IF m1.aborted THEN m1
         ELSE LET from == link(m.img, LinkNode(from_idx)) IN
              IF from.previous = to_node(to_previous_idx) THEN m1
              ELSE LET m2 == link_read(m1, to_previous_idx) IN
                   IF m2.aborted THEN m2
                   ELSE move_to(m2, from_idx, from,
                                MkLink(to_node(to_previous_idx),
                                       link(m.img, to_previous_idx).previous))

\* AcidList::move_after
move_after(m, from_idx, to_previous_idx) ==
    IF LinkNode(from_idx) = to_previous_idx THEN Abort(m)
    ELSE LET m1 == link_read(m, LinkNode(from_idx)) IN
         IF m1.aborted THEN m1
         ELSE LET from == link(m.img, LinkNode(from_idx)) IN
              IF from.previous = to_node(to_previous_idx) THEN m1
              ELSE LET m2 == link_read(m1, to_previous_idx) IN
                   IF m2.aborted THEN m2
                   ELSE move_to(m2, from_idx, from,
                                MkLink(to_node(to_previous_idx), link(m.img, to_previous_idx).next))

\* AcidList::neighbors: both words of the slot's Link, decoded.
neighbors(img, li) ==
    LET l == link(img, li) IN
    [previous |-> from_node(l.previous), next |-> from_node(l.next)]

\* set that takes the first node whatever the index is.
set_first_node(m, idx, value) ==
    IF ~node_in_range(m.img, idx) THEN Abort(m)
    ELSE Logged([m EXCEPT !.img.nodes[0].contents = value], "write", LinkNode(0), "contents")

\* AcidList::set: self.node_mut(idx).contents = value
set(m, idx, value) ==
    IF ~node_in_range(m.img, idx) THEN Abort(m)
    ELSE Logged([m EXCEPT !.img.nodes[idx].contents = value], "write", LinkNode(idx), "contents")

\* AcidList::get: &self.node(idx).contents
get(m, idx) ==
    IF ~node_in_range(m.img, idx) THEN Abort(m)
    ELSE Logged(m, "read", LinkNode(idx), "contents")

\* What the reference returned by get points to; no value when get aborts.
get_value(img, idx) == IF node_in_range(img, idx) THEN img.nodes[idx].contents ELSE 0

\* ------------------------------------------------------------------- state

VARIABLES
    disk,       \* the file, which the shared mapping of a handle is a window on
    handle,     \* "none", "open" or "closed": the process's AcidList value
    aborted,    \* whether an assertion has aborted the process
    ptype,      \* the payload type T of the process
    target,     \* the pointer width of the build
    last,       \* the last call: its name and arguments (for get, the
                \* value it returned)
    result,     \* what the last call returned
    pre,        \* the file before the last call
    log,        \* the accesses the last call made to the mapping
    exists,     \* whether there is a file at the path
    mapped,     \* whether the process holds a mapping of the file
    procs,      \* the processes that open the same file: where each one is
    lock_owner, \* the process whose open file description holds the flock
                \* lock of the file, 0 when the lock is free
    lock_with_mapping,  \* whether the kernel keeps an open file description,
                \* and the lock it holds, alive for as long as a mapping made
                \* from it, or ends both with the last descriptor
    replay,     \* the accesses an LRU replay has made so far, and how it
                \* chooses the anchor of the next one
    creating    \* where a create that other processes run beside is: its
                \* header, its place in the code, the link writes it has made

procVars == <<procs, lock_owner, lock_with_mapping>>

vars == <<disk, handle, aborted, ptype, target, last, result, pre, log, exists, mapped,
          procs, lock_owner, lock_with_mapping, replay, creating>>

\* How many processes open the file.
NumProcs == 2

ProcIds == 1 .. NumProcs

\* No process has touched the file.
ProcsIdle ==
    /\ procs = [p \in ProcIds |-> [pc |-> "idle", mapped |-> FALSE, result |-> "none"]]
    /\ lock_owner = 0

Call(op, from, anchor, value) ==
    [op |-> op, from |-> from, anchor |-> anchor, value |-> value, fault |-> "none"]

\* A call of create, open or close, with the system call that fails in it.
SysCall(op, heads, nodes, fault) ==
    [op |-> op, from |-> heads, anchor |-> LinkNode(nodes), value |-> 0, fault |-> fault]

\* A system call in the log of a call.
Sys(name) == Event(name, LinkNode(0), "sys")

SysLog(events) == [i \in 1 .. Len(events) |-> Sys(events[i])]

NoCall == Call("none", 0, LinkNode(0), 0)

\* No replay of accesses is under way.
NoReplay == [mode |-> "none", done |-> <<>>]

\* No create is under way beside other processes.
NoCreate ==
    [pc |-> "idle", step |-> 0,
     header |-> [magic |-> 0, data_size |-> 0, heads |-> 0, nodes |-> 0]]

\* The state a handle returned by create is in, for the lists the operations
\* are explored on: the examples' payload type, on a 64-bit target.
Init ==
    \E heads \in 1 .. MaxHeads, nodes \in 0 .. MaxNodes :
        LET c == create(U8x32, new_header(U8x32, heads, nodes), 64, "none") IN
        /\ disk = c.m.img
        /\ handle = "open"
        /\ aborted = FALSE
        /\ ptype = U8x32
        /\ target = 64
        /\ last = Call("create", heads, LinkNode(nodes), 0)
        /\ result = c.result
        /\ pre = zeroed_file(c.m.img.header, c.m.img.len)
        /\ log = SysLog(c.events) \o c.m.log
        /\ exists = TRUE
        /\ mapped = TRUE
        /\ ProcsIdle
        /\ lock_with_mapping = TRUE
        /\ replay = NoReplay
        /\ creating = NoCreate

\* A call of a list operation on the open handle, run to its return or to
\* the assertion that aborts the process.
Ran(call, m) ==
    /\ disk' = m.img
    /\ aborted' = m.aborted
    /\ last' = call
    /\ result' = IF m.aborted THEN "abort" ELSE "unit"
    /\ pre' = disk
    /\ log' = m.log
    /\ UNCHANGED <<handle, ptype, target, exists, mapped>>
    /\ UNCHANGED procVars

\* The handle is open and the caller is between two calls.
Live == handle = "open" /\ ~aborted /\ last.op = "none"

MoveBefore(from_idx, to_next_idx) ==
    /\ Live
    /\ Ran(Call("move_before", from_idx, to_next_idx, 0),
           move_before(Start(disk), from_idx, to_next_idx))
    /\ UNCHANGED <<replay, creating>>

MoveAfter(from_idx, to_previous_idx) ==
    /\ Live
    /\ Ran(Call("move_after", from_idx, to_previous_idx, 0),
           move_after(Start(disk), from_idx, to_previous_idx))
    /\ UNCHANGED <<replay, creating>>

Set(idx, value) ==
    /\ Live
    /\ disk.header.nodes <= MaxSetNodes
    /\ Ran(Call("set", idx, LinkNode(idx), value), set(Start(disk), idx, value))
    /\ UNCHANGED <<replay, creating>>

Get(idx) ==
    /\ Live
    /\ Ran(Call("get", idx, LinkNode(idx), get_value(disk, idx)), get(Start(disk), idx))
    /\ UNCHANGED <<replay, creating>>

Neighbors(li) ==
    /\ Live
    /\ Ran(Call("neighbors", 0, li, 0), link_read(Start(disk), li))
    /\ UNCHANGED <<replay, creating>>

\* The caller takes the call's return and goes on: the record of the
\* finished call is dropped.  An aborted process goes nowhere.
Return ==
    /\ ~aborted
    /\ last.op # "none"
    /\ last' = NoCall
    /\ result' = "none"
    /\ pre' = disk
    /\ log' = <<>>
    /\ UNCHANGED <<disk, handle, aborted, ptype, target, exists, mapped>>
    /\ UNCHANGED procVars
    /\ UNCHANGED <<replay, creating>>

\* The index arguments the calls are explored with: every index of the
\* largest list and the one behind it, the word that is the head flag alone
\* (as a word, the name of head 0), and the largest word.
ArgIndices ==
    {i \in NodeIndexValues :
        \/ i <= Max(MaxHeads, MaxNodes)
        \/ i \in {HEAD_FLAG, NodeIndexLimit - 1}}

ArgLinks == {LinkNode(i) : i \in ArgIndices} \cup {LinkHead(i) : i \in ArgIndices}

Next ==
    \/ \E from_idx \in ArgIndices, li \in ArgLinks : MoveBefore(from_idx, li)
    \/ \E from_idx \in ArgIndices, li \in ArgLinks : MoveAfter(from_idx, li)
    \/ \E idx \in ArgIndices, value \in PayloadValues : Set(idx, value)
    \/ \E idx \in ArgIndices : Get(idx)
    \/ \E li \in ArgLinks : Neighbors(li)
    \/ Return

Spec == Init /\ [][Next]_vars

\* ------------------------------------------------- the life of a handle

\* close that lets the value go out of scope after its munmap has succeeded.
close_without_forget(first_fails, second_fails) ==
    IF first_fails /\ second_fails
    THEN [result |-> "abort", events |-> <<"munmap_failed", "drop", "munmap_failed">>,
          mapped |-> TRUE, aborted |-> TRUE]
    ELSE IF first_fails
    THEN [result |-> "OsError", events |-> <<"munmap_failed", "drop", "munmap">>,
          mapped |-> FALSE, aborted |-> FALSE]
    ELSE IF second_fails
    THEN [result |-> "abort", events |-> <<"munmap", "drop", "munmap_failed">>,
          mapped |-> FALSE, aborted |-> TRUE]
    ELSE [result |-> "Ok", events |-> <<"munmap", "drop", "munmap">>,
          mapped |-> FALSE, aborted |-> FALSE]

\* AcidList::close: munmap, and on its error the early return drops self,
\* whose Drop unmaps again and panics if that fails too.
close(first_fails, second_fails) ==
    IF ~first_fails
    THEN [result |-> "Ok", events |-> <<"munmap">>, mapped |-> FALSE, aborted |-> FALSE]
    ELSE IF ~second_fails
    THEN [result |-> "OsError", events |-> <<"munmap_failed", "drop", "munmap">>,
          mapped |-> FALSE, aborted |-> FALSE]
    ELSE [result |-> "abort", events |-> <<"munmap_failed", "drop", "munmap_failed">>,
          mapped |-> TRUE, aborted |-> TRUE]

\* Drop for AcidList: munmap(...).expect("AcidList::close")
drop(fails) ==
    IF ~fails
    THEN [result |-> "unit", events |-> <<"drop", "munmap">>, mapped |-> FALSE, aborted |-> FALSE]
    ELSE [result |-> "abort", events |-> <<"drop", "munmap_failed">>,
          mapped |-> TRUE, aborted |-> TRUE]

\* No file at the path.
NoFile == zeroed_file([magic |-> 0, data_size |-> 0, heads |-> 0, nodes |-> 0], 0)

\* The heads and nodes counts a header is explored with: the small counts,
\* the counts around the head flag, and the largest word.
HeaderCounts ==
    {i \in NodeIndexValues :
        \/ i <= MaxHeads
        \/ i \in {HEAD_FLAG - 1, HEAD_FLAG, HEAD_FLAG + 1, NodeIndexLimit - 1}}

\* The files a caller may hand to open: of any such header, zero behind it,
\* and of the length the header implies for T, a length next to it, or a
\* length around the header's own.
FilesFor(T) ==
    {zeroed_file([magic |-> mg, data_size |-> ds, heads |-> h, nodes |-> n], len) :
        mg \in {HEADER_MAGIC, 0}, ds \in {U8x32.size, U8x16.size},
        h \in HeaderCounts, n \in HeaderCounts,
        len \in {0, SIZE_OF_HEADER - 1, SIZE_OF_HEADER, SIZE_OF_HEADER + SIZE_OF_LINK}}
    \cup
    {zeroed_file(hd, file_size(T, hd) + d) :
        hd \in {[magic |-> mg, data_size |-> ds, heads |-> h, nodes |-> n] :
                    mg \in {HEADER_MAGIC, 0}, ds \in {U8x32.size, U8x16.size},
                    h \in HeaderCounts, n \in HeaderCounts},
        d \in {0, SIZE_OF_LINK}}

\* A process that holds no handle yet, its payload type and target, and either
\* no file at the path or any file.
InitLife ==
    /\ ptype \in {U8x32, U64}
    /\ target \in Targets
    /\ \/ exists = FALSE /\ disk = NoFile
       \/ exists = TRUE /\ disk \in FilesFor(ptype)
    /\ handle = "none"
    /\ aborted = FALSE
    /\ mapped = FALSE
    /\ last = NoCall
    /\ result = "none"
    /\ pre = disk
    /\ log = <<>>
    /\ ProcsIdle
    /\ lock_with_mapping \in BOOLEAN
    /\ replay = NoReplay
    /\ creating = NoCreate

\* The lock after process p has closed its descriptor of the file: it goes
\* with the descriptor, unless the kernel keeps the open file description
\* alive under p's mapping.
after_close_fd(p, owner, p_mapped, with_mapping) ==
    IF owner = p /\ ~(with_mapping /\ p_mapped) THEN 0 ELSE owner

\* The lock after process p has unmapped the file, its descriptor closed
\* long ago: the last reference to the open file description is gone.
after_munmap(p, owner) == IF owner = p THEN 0 ELSE owner

\* The single caller as a process that takes the lock of the file: the one
\* after the processes that open it.
Caller == NumProcs + 1

Occurs(events, name) == \E i \in 1 .. Len(events) : events[i] = name

\* Whether the calls of an open leave the file mapped: mmap has succeeded and
\* no munmap has.
mapping_left(events) == Occurs(events, "mmap") /\ ~Occurs(events, "munmap")

\* The lock after an open of the caller: taken by a flock that succeeded, and
\* the descriptor closed at the return.
lock_after_open(events) ==
    IF Occurs(events, "flock")
    THEN after_close_fd(Caller, Caller, mapping_left(events), lock_with_mapping)
    ELSE lock_owner

\* AcidList::create(path, Header::new(heads, nodes)) where no file exists.
Create(heads, nodes, fault) ==
    /\ handle = "none" /\ ~aborted /\ last.op = "none"
    /\ ~exists
    /\ LET c == create(ptype, new_header(ptype, heads, nodes), target, fault) IN
        /\ disk' = c.m.img
        /\ result' = c.result
        /\ log' = SysLog(c.events) \o c.m.log
        /\ aborted' = c.m.aborted
        /\ handle' = IF c.result = "Ok" THEN "open" ELSE "none"
        /\ mapped' = mapping_left(c.events)
        /\ lock_owner' = lock_after_open(c.events)
    /\ last' = SysCall("create", heads, nodes, fault)
    /\ pre' = disk
    /\ exists' = TRUE
    /\ UNCHANGED <<ptype, target, procs, lock_with_mapping>>
    /\ UNCHANGED <<replay, creating>>

\* AcidList::create on a path where a file exists: create_new(true) makes
\* the open of the path fail, and nothing else is done.
CreateExisting ==
    /\ handle = "none" /\ ~aborted /\ last.op = "none"
    /\ exists
    /\ last' = SysCall("create", 0, 0, "none")
    /\ result' = "AlreadyExists"
    /\ pre' = disk
    /\ log' = <<>>
    /\ UNCHANGED <<disk, handle, aborted, exists, mapped, ptype, target>>
    /\ UNCHANGED procVars
    /\ UNCHANGED <<replay, creating>>

\* AcidList::open(file) on the file at the path.
Open(fault) ==
    /\ handle \in {"none", "closed"} /\ ~aborted /\ ~mapped /\ exists
    /\ lock_owner = 0
    /\ last.op \in {"none", "create", "close", "drop"}
    /\ LET o == open(disk, ptype, target, fault) IN
        /\ last' = SysCall("open", disk.header.heads, disk.header.nodes, fault)
        /\ result' = o.result
        /\ log' = SysLog(o.events)
        /\ handle' = IF o.result = "Ok" THEN "open" ELSE handle
        /\ mapped' = mapping_left(o.events)
        /\ aborted' = (o.result = "abort")
        /\ lock_owner' = lock_after_open(o.events)
    /\ pre' = disk
    /\ UNCHANGED <<disk, ptype, target, exists, procs, lock_with_mapping>>
    /\ UNCHANGED <<replay, creating>>

\* list.close()
Close(first_fails, second_fails) ==
    /\ handle = "open" /\ ~aborted
    /\ LET c == close(first_fails, second_fails) IN
        /\ last' = SysCall("close", 0, 0, IF first_fails THEN "munmap" ELSE "none")
        /\ result' = c.result
        /\ log' = SysLog(c.events)
        /\ mapped' = c.mapped
        /\ aborted' = c.aborted
        /\ lock_owner' = IF c.mapped THEN lock_owner ELSE after_munmap(Caller, lock_owner)
    /\ handle' = "closed"
    /\ pre' = disk
    /\ UNCHANGED <<disk, ptype, target, exists, procs, lock_with_mapping>>
    /\ UNCHANGED <<replay, creating>>

\* The handle goes out of scope without close().
Drop(fails) ==
    /\ handle = "open" /\ ~aborted
    /\ LET d == drop(fails) IN
        /\ last' = SysCall("drop", 0, 0, IF fails THEN "munmap" ELSE "none")
        /\ result' = d.result
        /\ log' = SysLog(d.events)
        /\ mapped' = d.mapped
        /\ aborted' = d.aborted
        /\ lock_owner' = IF d.mapped THEN lock_owner ELSE after_munmap(Caller, lock_owner)
    /\ handle' = "closed"
    /\ pre' = disk
    /\ UNCHANGED <<disk, ptype, target, exists, procs, lock_with_mapping>>
    /\ UNCHANGED <<replay, creating>>

NextLife ==
    \/ \E heads \in HeaderCounts, nodes \in HeaderCounts,
          fault \in {"none", "flock", "seek", "mmap", "munmap"} : Create(heads, nodes, fault)
    \/ CreateExisting
    \/ \E fault \in {"none", "flock", "seek", "mmap", "munmap"} : Open(fault)
    \/ \E first_fails \in BOOLEAN, second_fails \in BOOLEAN : Close(first_fails, second_fails)
    \/ \E fails \in BOOLEAN : Drop(fails)

SpecLife == InitLife /\ [][NextLife]_vars

\* ------------------------------------------- processes on the same file

\* The variables of the single caller, which stand still here.
callerVars ==
    <<handle, aborted, ptype, target, last, result, pre, log, mapped, replay, creating>>

\* The files the processes open: two lists made by create and a file that
\* is no list.
SharedFiles ==
    {create(U8x32, new_header(U8x32, 1, 1), 64, "none").m.img,
     create(U8x32, new_header(U8x32, 2, 1), 64, "none").m.img,
     zeroed_file([magic |-> 0, data_size |-> 0, heads |-> 0, nodes |-> 0], SIZE_OF_HEADER)}

InitProcs ==
    /\ disk \in SharedFiles
    /\ exists = TRUE
    /\ lock_with_mapping \in BOOLEAN
    /\ ProcsIdle
    /\ handle = "none"
    /\ aborted = FALSE
    /\ ptype = U8x32
    /\ target = 64
    /\ last = NoCall
    /\ result = "none"
    /\ pre = disk
    /\ log = <<>>
    /\ mapped = FALSE
    /\ replay = NoReplay
    /\ creating = NoCreate

\* The caller opens the file for reading and writing and calls open, whose
\* first step asks for the lock.
POpenFile(p) ==
    /\ procs[p].pc = "idle"
    /\ exists
    /\ procs' = [procs EXCEPT ![p].pc = "flock"]
    /\ UNCHANGED <<disk, exists, lock_owner, lock_with_mapping>>
    /\ UNCHANGED callerVars

\* syscall::flock(fd, LOCK_EX) returns once no other open file description
\* holds the lock.
PFlock(p) ==
    /\ procs[p].pc = "flock"
    /\ lock_owner = 0
    /\ lock_owner' = p
    /\ procs' = [procs EXCEPT ![p].pc = "locked"]
    /\ UNCHANGED <<disk, exists, lock_with_mapping>>
    /\ UNCHANGED callerVars

\* The rest of open, from the seek to the return, where the File is dropped
\* and its descriptor closed.
POpenRest(p, fault) ==
    /\ procs[p].pc = "locked"
    /\ LET o == open(disk, ptype, target, fault)
           ok == o.result = "Ok"
       IN /\ procs' = [procs EXCEPT ![p] = [pc |-> IF ok THEN "handle" ELSE "idle",
                                            mapped |-> ok,
                                            result |-> o.result]]
          /\ lock_owner' = after_close_fd(p, lock_owner, ok, lock_with_mapping)
    /\ UNCHANGED <<disk, exists, lock_with_mapping>>
    /\ UNCHANGED callerVars

\* close() on the handle of process p, its munmap succeeding.
PClose(p) ==
    /\ procs[p].pc = "handle"
    /\ procs' = [procs EXCEPT ![p] = [pc |-> "idle", mapped |-> FALSE, result |-> "closed"]]
    /\ lock_owner' = after_munmap(p, lock_owner)
    /\ UNCHANGED <<disk, exists, lock_with_mapping>>
    /\ UNCHANGED callerVars

\* The handle of process p is dropped, its munmap succeeding.
PDrop(p) ==
    /\ procs[p].pc = "handle"
    /\ procs' = [procs EXCEPT ![p] = [pc |-> "idle", mapped |-> FALSE, result |-> "dropped"]]
    /\ lock_owner' = after_munmap(p, lock_owner)
    /\ UNCHANGED <<disk, exists, lock_with_mapping>>
    /\ UNCHANGED callerVars

NextProcs ==
    \E p \in ProcIds :
        \/ POpenFile(p)
        \/ PFlock(p)
        \/ \E fault \in {"none", "seek", "mmap"} : POpenRest(p, fault)
        \/ PClose(p)
        \/ PDrop(p)

SpecProcs == InitProcs /\ [][NextProcs]_vars

\* ------------------------------------------------------------ an LRU replay

\* move_before(i, Head(h)) for i = i, i + 1, ..., n - 1: the nodes are put at
\* the end of list h one after the other.
RECURSIVE move_all_before(_, _, _, _)
move_all_before(m, i, n, h) ==
    IF m.aborted \/ i >= n THEN m
    ELSE move_all_before(move_before(m, i, LinkHead(h)), i + 1, n, h)

\* The list a replay starts on: two heads, all nodes moved from list 0, where
\* create puts them, to list 1 in index order.
LruStart ==
    move_all_before(Start(create(U8x32, new_header(U8x32, 2, LruNodes), 64, "none").m.img),
                    0, LruNodes, 1).img

\* The anchor of the next access: Head(0) for every access of a replay that
\* touches its nodes to the head; in the loop of the lru example Head(0) for
\* the first access and then the node accessed before (prev).
lru_anchor(r) ==
    IF r.mode = "head" \/ r.done = <<>> THEN LinkHead(0) ELSE LinkNode(r.done[Len(r.done)])

InitLru ==
    /\ disk = LruStart
    /\ handle = "open"
    /\ aborted = FALSE
    /\ ptype = U8x32
    /\ target = 64
    /\ last = NoCall
    /\ result = "none"
    /\ pre = disk
    /\ log = <<>>
    /\ exists = TRUE
    /\ mapped = TRUE
    /\ ProcsIdle
    /\ lock_with_mapping = TRUE
    /\ replay \in {[mode |-> md, done |-> <<>>] : md \in {"head", "prev"}}
    /\ creating = NoCreate

\* One access of a replay: list.move_before(idx, anchor)
Access(idx) ==
    /\ handle = "open" /\ ~aborted
    /\ Len(replay.done) < MaxAccesses
    /\ Ran(Call("move_before", idx, lru_anchor(replay), 0),
           move_before(Start(disk), idx, lru_anchor(replay)))
    /\ replay' = [replay EXCEPT !.done = Append(@, idx)]
    /\ UNCHANGED creating

NextLru == \E idx \in 0 .. (LruNodes - 1) : Access(idx)

SpecLru == InitLru /\ [][NextLru]_vars

\* ------------------------------------- create beside processes that open

\* The images the file goes through while create initialises the links of a
\* file it has sized and headed: one after each write of its loops.
create_writes(T, header) ==
    thread_list0(init_heads(Start(zeroed_file(header, file_size(T, header))), 0, header.heads),
                 header).trace

\* No file at the path, no process anywhere in create or open.
InitRace ==
    /\ exists = FALSE
    /\ disk = NoFile
    /\ lock_with_mapping \in BOOLEAN
    /\ ProcsIdle
    /\ handle = "none"
    /\ aborted = FALSE
    /\ ptype = U8x32
    /\ target = 64
    /\ last = NoCall
    /\ result = "none"
    /\ pre = disk
    /\ log = <<>>
    /\ mapped = FALSE
    /\ replay = NoReplay
    /\ creating = NoCreate

\* OpenOptions::new().create_new(true).read(true).write(true).open(path):
\* an empty file appears at the path.
CMakeFile(heads, nodes) ==
    /\ creating.pc = "idle" /\ ~exists
    /\ exists' = TRUE
    /\ disk' = NoFile
    /\ creating' = [pc |-> "made", step |-> 0, header |-> new_header(ptype, heads, nodes)]
    /\ last' = SysCall("create", heads, nodes, "none")
    /\ UNCHANGED <<handle, aborted, ptype, target, result, pre, log, mapped, replay>>
    /\ UNCHANGED procVars

\* file.set_len(header.file_size()): the file is that many zero bytes.
CSetLen ==
    /\ creating.pc = "made"
    /\ disk' = zeroed_file(NoCreate.header, file_size(ptype, creating.header))
    /\ creating' = [creating EXCEPT !.pc = "sized"]
    /\ UNCHANGED <<handle, aborted, ptype, target, last, result, pre, log, mapped, replay, exists>>
    /\ UNCHANGED procVars

\* file.write_all(the bytes of the header)
CWriteHeader ==
    /\ creating.pc = "sized"
    /\ disk' = zeroed_file(creating.header, disk.len)
    /\ creating' = [creating EXCEPT !.pc = "written"]
    /\ UNCHANGED <<handle, aborted, ptype, target, last, result, pre, log, mapped, replay, exists>>
    /\ UNCHANGED procVars

\* AcidList::open(file) in create: its flock, which waits for the lock.
CFlock ==
    /\ creating.pc = "written"
    /\ lock_owner = 0
    /\ lock_owner' = Caller
    /\ creating' = [creating EXCEPT !.pc = "locked"]
    /\ UNCHANGED <<disk, handle, aborted, ptype, target, last, result, pre, log, mapped, replay,
                   exists, procs, lock_with_mapping>>

\* The rest of that open, to its return, where the File is dropped.
COpenRest ==
    /\ creating.pc = "locked"
    /\ LET o == open(disk, ptype, target, "none") IN
        /\ mapped' = mapping_left(o.events)
        /\ lock_owner' = after_close_fd(Caller, lock_owner, mapping_left(o.events),
                                        lock_with_mapping)
        /\ creating' = [creating EXCEPT !.pc = IF o.result = "Ok" THEN "mapped" ELSE "failed"]
        /\ result' = IF o.result = "Ok" THEN result ELSE o.result
    /\ UNCHANGED <<disk, handle, aborted, ptype, target, last, pre, log, replay,
                   exists, procs, lock_with_mapping>>

\* One write of the loops that initialise the heads and thread the nodes.
CWriteLink ==
    /\ creating.pc = "mapped"
    /\ creating.step < Len(create_writes(ptype, creating.header))
    /\ disk' = create_writes(ptype, creating.header)[creating.step + 1]
    /\ creating' = [creating EXCEPT !.step = @ + 1]
    /\ UNCHANGED <<handle, aborted, ptype, target, last, result, pre, log, mapped, replay, exists>>
    /\ UNCHANGED procVars

\* Ok(list)
CReturn ==
    /\ creating.pc = "mapped"
    /\ creating.step = Len(create_writes(ptype, creating.header))
    /\ handle' = "open"
    /\ result' = "Ok"
    /\ creating' = [creating EXCEPT !.pc = "done"]
    /\ UNCHANGED <<disk, aborted, ptype, target, last, pre, log, mapped, replay, exists>>
    /\ UNCHANGED procVars

NextRace ==
    \/ \E heads \in 1 .. MaxHeads, nodes \in 0 .. MaxNodes : CMakeFile(heads, nodes)
    \/ CSetLen
    \/ CWriteHeader
    \/ CFlock
    \/ COpenRest
    \/ CWriteLink
    \/ CReturn
    \/ \E p \in ProcIds :
        \/ POpenFile(p)
        \/ PFlock(p)
        \/ POpenRest(p, "none")
        \/ PClose(p)
        \/ PDrop(p)

SpecRace == InitRace /\ [][NextRace]_vars

\* ------------------------------------------------------ the lists of a file

\* Every slot of a file: its heads and its nodes.
Slots(img) ==
    {LinkHead(h) : h \in 0 .. (img.header.heads - 1)}
        \cup {LinkNode(n) : n \in 0 .. (img.header.nodes - 1)}

\* Both words of slot X decode to a slot of the file.
ValidLinks(img, X) ==
    LET nb == neighbors(img, X) IN
    in_range(img, nb.previous) /\ in_range(img, nb.next)

\* slot(slot(X).next).previous == X and slot(slot(X).previous).next == X
SymmetricAt(img, X) ==
    LET nb == neighbors(img, X) IN
    /\ neighbors(img, nb.next).previous = X
    /\ neighbors(img, nb.previous).next = X

WellFormed(img) == \A X \in Slots(img) : ValidLinks(img, X) /\ SymmetricAt(img, X)

\* The slots met by following next from li, up to and with the first head, in
\* at most `fuel` steps.
RECURSIVE walk(_, _, _)
walk(img, li, fuel) ==
    IF fuel = 0 \/ ~in_range(img, li) THEN <<>>
    ELSE IF li.tag = "Head" THEN <<li>>
    ELSE <<li>> \o walk(img, neighbors(img, li).next, fuel - 1)

\* The traversal of list h: from the head's next until a head is met.
Traversal(img, h) == walk(img, neighbors(img, LinkHead(h)).next, img.header.nodes + 1)

\* The node indices of a traversal that ends at head h, in order.
NodesOf(t) == [i \in 1 .. (Len(t) - 1) |-> t[i].idx]

EndsAt(t, h) == Len(t) >= 1 /\ t[Len(t)] = LinkHead(h)

\* The traversals of all lists, one after the other.
RECURSIVE AllNodes(_, _)
AllNodes(img, h) ==
    IF h >= img.header.heads THEN <<>>
    ELSE NodesOf(Traversal(img, h)) \o AllNodes(img, h + 1)

Range(seq) == {seq[i] : i \in 1 .. Len(seq)}

\* Every list's traversal returns to its own head, and together they visit
\* every node of the file exactly once.
Covered(img) ==
    LET all == AllNodes(img, 0) IN
    /\ \A h \in 0 .. (img.header.heads - 1) : EndsAt(Traversal(img, h), h)
    /\ Len(all) = img.header.nodes
    /\ Range(all) = 0 .. (img.header.nodes - 1)

IsMove == last.op \in {"move_before", "move_after"}

\* The last call was a move whose arguments meet its preconditions.
ValidMove ==
    /\ IsMove
    /\ in_range(pre, LinkNode(last.from))
    /\ in_range(pre, last.anchor)
    /\ LinkNode(last.from) # last.anchor

\* The successor of slot X in its list once node `from` is taken out.
NextWithout(img, from_idx, X) ==
    LET n == neighbors(img, X).next IN
    IF n = LinkNode(from_idx) THEN neighbors(img, n).next ELSE n

HasWrite(l) == \E i \in 1 .. Len(l) : l[i].ev = "write"

\* ------------------------------------------------------------------ claims

\* C1: on a handle returned by create, after any sequence of calls, every
\* slot's previous and next decode to a head or a node of the file, and the
\* links are symmetric: slot(slot(X).next).previous = X and
\* slot(slot(X).previous).next = X for every head and node X.
C1_Symmetry == handle = "open" => WellFormed(disk)

\* A valid move has relinked a node (the file differs from the one before).
C1_Witness == ValidMove /\ result = "unit" /\ disk # pre /\ WellFormed(disk)

\* C2: the traversals of the lists, each from its head along next back to
\* that head, together visit every node 0..nodes-1 exactly once.
C2_Coverage == handle = "open" => Covered(disk)

\* A node has been moved from list 0 to another list, which now holds it.
C2_Witness ==
    /\ ValidMove /\ result = "unit"
    /\ disk.header.heads >= 2
    /\ Len(Traversal(disk, 1)) = 2
    /\ Len(Traversal(pre, 1)) = 1
    /\ Len(Traversal(disk, 0)) >= 3

\* C3: a move_before(from, to_next) with in-range arguments and
\* Node(from) # to_next returns with from the immediate predecessor of
\* to_next, a move_after(from, to_previous) with from the immediate successor
\* of to_previous; the next-order of all other slots is the one before the
\* call with from taken out.
C3_RelinkPost ==
    ValidMove =>
        /\ result = "unit"
        /\ last.op = "move_before" =>
            /\ neighbors(disk, LinkNode(last.from)).next = last.anchor
            /\ neighbors(disk, last.anchor).previous = LinkNode(last.from)
        /\ last.op = "move_after" =>
            /\ neighbors(disk, LinkNode(last.from)).previous = last.anchor
            /\ neighbors(disk, last.anchor).next = LinkNode(last.from)
        /\ \A X \in Slots(disk) \ {LinkNode(last.from)} :
            NextWithout(disk, last.from, X) = NextWithout(pre, last.from, X)

\* move_after put a node that stood between two nodes behind the head of
\* another, empty list (scenario 3 of the specification).
C3_Witness ==
    /\ ValidMove /\ last.op = "move_after" /\ result = "unit"
    /\ last.anchor = LinkHead(1)
    /\ neighbors(pre, LinkHead(1)).next = LinkHead(1)
    /\ neighbors(pre, LinkNode(last.from)).previous.tag = "Node"
    /\ neighbors(pre, LinkNode(last.from)).next.tag = "Node"
    /\ Traversal(disk, 1) = <<LinkNode(last.from), LinkHead(1)>>

\* The move found its node already in the requested place.
ShortCircuit ==
    /\ IsMove
    /\ LinkNode(last.from) # last.anchor
    /\ in_range(pre, LinkNode(last.from))
    /\ \/ last.op = "move_before" /\ link(pre, LinkNode(last.from)).next = to_node(last.anchor)
       \/ last.op = "move_after" /\ link(pre, LinkNode(last.from)).previous = to_node(last.anchor)

\* C4: a move whose node is already in the requested place (from.next =
\* encode(to_next) for move_before, from.previous = encode(to_previous) for
\* move_after) returns without a write and leaves the file as it was; and a
\* move that returned leaves its node in that place, so that the same call
\* made again is such a move.
C4_NoOpShortCircuit ==
    /\ ShortCircuit => (result = "unit" /\ disk = pre /\ ~HasWrite(log))
    /\ (IsMove /\ result = "unit" /\ last.op = "move_before")
            => link(disk, LinkNode(last.from)).next = to_node(last.anchor)
    /\ (IsMove /\ result = "unit" /\ last.op = "move_after")
            => link(disk, LinkNode(last.from)).previous = to_node(last.anchor)

\* move_before of a node that an earlier move has put before the same anchor.
C4_Witness ==
    /\ ShortCircuit /\ last.op = "move_before" /\ result = "unit"
    /\ last.anchor.tag = "Node"
    /\ in_range(pre, last.anchor)
    /\ neighbors(disk, last.anchor).next.tag = "Head"
    /\ last.from > last.anchor.idx
    /\ disk = pre

\* Head h points to itself in both directions.
SelfLoop(img, h) ==
    neighbors(img, LinkHead(h)) = [previous |-> LinkHead(h), next |-> LinkHead(h)]

\* The image create is to build: every head but head 0 a self-loop, head 0 a
\* self-loop without nodes and otherwise the list of all nodes in index
\* order, all links symmetric.
CreatePost(img) ==
    /\ \A h \in 1 .. (img.header.heads - 1) : SelfLoop(img, h)
    /\ IF img.header.nodes = 0
       THEN SelfLoop(img, 0)
       ELSE Traversal(img, 0) =
                [i \in 1 .. (img.header.nodes + 1) |->
                    IF i <= img.header.nodes THEN LinkNode(i - 1) ELSE LinkHead(0)]
    /\ WellFormed(img)

\* C5: for every heads >= 1 and every nodes >= 0, a create that returns a
\* handle has made every head h > 0 a self-loop and head 0 the list of
\* Node(0), ..., Node(nodes-1) in index order (a self-loop when nodes = 0),
\* with all links symmetric.
C5_CreatePost ==
    (last.op = "create" /\ result = "Ok" /\ disk.header.heads >= 1) => CreatePost(disk)

\* The outcome the claim gives open for a file f and a caller's payload T.
ClaimedOpenOutcome(f, T) ==
    IF f.len < SIZE_OF_HEADER THEN "NotInitialized"
    ELSE IF f.header.magic # HEADER_MAGIC THEN "WrongArchitecture"
    ELSE IF f.header.data_size # T.size THEN "WrongDataType"
    ELSE IF f.header.heads < 1 \/ f.len # file_size(T, f.header) THEN "NotInitialized"
    ELSE "Ok"

\* The last call was an open whose lock, seek and map calls succeeded.
OpenedWithoutFault == last.op = "open" /\ last.fault = "none"

\* C6 as stated: open of a file of length L returns NotInitialized if L <
\* sizeof(Header), else WrongArchitecture on a wrong magic, else
\* WrongDataType on a data_size that is not the caller's, else NotInitialized
\* if heads < 1 or L differs from file_size(header), else a handle.
C6_OpenOutcomeAsStated == OpenedWithoutFault => result = ClaimedOpenOutcome(pre, ptype)

\* C6 (amended): when its system calls succeed, open returns
\* WrongArchitecture for a file longer than the target's usize can hold, and
\* otherwise the outcome of the claim's list of checks, in its order.
C6_OpenOutcome ==
    OpenedWithoutFault =>
        result = IF target = 32 /\ pre.len > NARROW_USIZE_MAX
                 THEN "WrongArchitecture"
                 ELSE ClaimedOpenOutcome(pre, ptype)

\* open has rejected, as NotInitialized, a file with a good header whose
\* length is not the one the header implies.
C6_Witness ==
    /\ OpenedWithoutFault /\ result = "NotInitialized"
    /\ pre.header.magic = HEADER_MAGIC
    /\ pre.header.data_size = ptype.size
    /\ pre.header.heads >= 1
    /\ pre.len >= SIZE_OF_HEADER
    /\ pre.len # file_size(ptype, pre.header)

\* C7: create and open return no handle on a header whose heads or nodes
\* count has the head flag's bit or a higher one set (2^31 or more in the
\* source).
C7_CapRejected ==
    (last.op \in {"create", "open"} /\ result = "Ok")
        => (disk.header.heads < HEAD_FLAG /\ disk.header.nodes < HEAD_FLAG)

\* The last call was given a node index or a link index that is not one of
\* the file's.
OutOfRangeCall ==
    \/ last.op \in {"get", "set"} /\ ~node_in_range(pre, last.from)
    \/ last.op = "neighbors" /\ ~in_range(pre, last.anchor)
    \/ IsMove /\ (~in_range(pre, LinkNode(last.from)) \/ ~in_range(pre, last.anchor))

\* C8: get, set, neighbors, move_before and move_after abort the process on
\* an out-of-range node or head index, whatever its value, and write nothing
\* before they do.
C8_OutOfRangeAborts == OutOfRangeCall => (result = "abort" /\ disk = pre /\ ~HasWrite(log))

\* C9: move_before(i, Node(i)) and move_after(i, Node(i)) abort for every i,
\* before any link is read or written and with the file unchanged; and a
\* mutating call (set, a move) either returns unit or aborts.
C9_SelfAnchoredAborts ==
    /\ (IsMove /\ last.anchor = LinkNode(last.from))
            => (result = "abort" /\ aborted /\ log = <<>> /\ disk = pre)
    /\ last.op \in {"set", "move_before", "move_after"} => result \in {"unit", "abort"}

\* A move of an in-range node next to itself has aborted the process.
C9_Witness ==
    /\ IsMove /\ last.anchor = LinkNode(last.from)
    /\ in_range(pre, LinkNode(last.from))
    /\ aborted

\* The processes that hold a handle: a live mapping returned by open.
Holders == {p \in ProcIds : procs[p].pc = "handle"}

\* C10: no two processes hold a handle on the file at the same time (the
\* lock taken in open is to last until the handle is closed or dropped, and
\* to keep a second open waiting until then).
C10_MutualExclusion == Cardinality(Holders) <= 1

\* The accesses 5, 3, 5, each one a move_before(x, Head(0)).
LruScenario == replay.mode = "head" /\ replay.done = <<5, 3, 5>>

\* The nodes the scenario does not touch, in the order list 1 had them in.
LruRemainder == SelectSeq(NodesOf(Traversal(LruStart, 1)), LAMBDA n : n \notin {3, 5})

\* C11 as stated: from Head(0) empty and nodes 0..9 in list 1 in index order,
\* move_before(5, Head(0)), move_before(3, Head(0)), move_before(5, Head(0))
\* leave list 0 visiting Node(5) then Node(3) along next, and list 1 holding
\* 0, 1, 2, 4, 6, 7, 8, 9 in this order.
C11_LruAsStated ==
    LruScenario =>
        /\ NodesOf(Traversal(disk, 0)) = <<5, 3>>
        /\ NodesOf(Traversal(disk, 1)) = LruRemainder

\* The accesses 5, 3, 5 as the loop of the lru example makes them:
\* move_before(5, Head(0)), move_before(3, Node(5)), move_before(5, Node(3)).
LruExampleRun == replay.mode = "prev" /\ replay.done = <<5, 3, 5>>

\* C11 (amended): the three calls move_before(x, Head(0)) leave list 0
\* visiting Node(3) then Node(5) along next (Node(5) then Node(3) along
\* previous: the node accessed last is the one before the head), and list 1
\* holding the other nodes in their original order; the replay of the lru
\* example, which puts each node before the node accessed before it, leaves
\* list 0 visiting Node(5) then Node(3) along next.
C11_LruTouch ==
    /\ LruScenario =>
        /\ result = "unit"
        /\ Traversal(disk, 0) = <<LinkNode(3), LinkNode(5), LinkHead(0)>>
        /\ neighbors(disk, LinkHead(0)).previous = LinkNode(5)
        /\ neighbors(disk, LinkNode(5)).previous = LinkNode(3)
        /\ neighbors(disk, LinkNode(3)).previous = LinkHead(0)
        /\ EndsAt(Traversal(disk, 1), 1)
        /\ NodesOf(Traversal(disk, 1)) = LruRemainder
    /\ LruExampleRun =>
        /\ result = "unit"
        /\ Traversal(disk, 0) = <<LinkNode(5), LinkNode(3), LinkHead(0)>>
        /\ EndsAt(Traversal(disk, 1), 1)
        /\ NodesOf(Traversal(disk, 1)) = LruRemainder

\* The third access has moved Node(5) from the front of list 0, where the
\* first two accesses left it, behind Node(3).
C11_Witness ==
    /\ LruScenario /\ result = "unit"
    /\ NodesOf(Traversal(pre, 0)) = <<5, 3>>
    /\ NodesOf(Traversal(disk, 0)) = <<3, 5>>
    /\ NodesOf(Traversal(LruStart, 1)) = [i \in 1 .. LruNodes |-> i - 1]
    /\ NodesOf(Traversal(LruStart, 0)) = <<>>

\* The image with the payload of node i replaced by v.
WithContents(img, i, v) == [img EXCEPT !.nodes[i].contents = v]

\* C12: after set(i, v) on an in-range node i the payload of node i is v, and
\* nothing else of the file differs from before: no link of a head or node,
\* no header field, no other node's payload; get returns the payload stored
\* in node i (so v, after set(i, v)); get and neighbors change nothing.
C12_SetGetFrame ==
    /\ (last.op = "set" /\ node_in_range(pre, last.from)) =>
        /\ result = "unit"
        /\ get_value(disk, last.from) = last.value
        /\ disk = WithContents(pre, last.from, last.value)
        /\ disk.header = pre.header /\ disk.heads = pre.heads /\ disk.len = pre.len
        /\ \A n \in 0 .. (pre.header.nodes - 1) :
            /\ disk.nodes[n].link = pre.nodes[n].link
            /\ n # last.from => disk.nodes[n].contents = pre.nodes[n].contents
    /\ (last.op = "get" /\ node_in_range(pre, last.from)) =>
        (result = "unit" /\ last.value = disk.nodes[last.from].contents)
    /\ last.op \in {"get", "neighbors"} => (disk = pre /\ ~HasWrite(log))

\* set has changed the payload of node 1 on a list whose node 0 holds another
\* payload, written by an earlier set.
C12_Witness ==
    /\ last.op = "set" /\ last.from = 1 /\ last.value = 0 /\ result = "unit"
    /\ node_in_range(pre, 1)
    /\ pre.nodes[1].contents = 1
    /\ disk.nodes[0].contents = 1
    /\ disk.nodes[1].contents = 0

\* C13: a handle returned by create(path, Header::new(heads, nodes)) is on a
\* file whose header holds these heads and nodes and whose length is the one
\* the header implies; close leaves the file as it is; and an open (its
\* system calls succeeding) of the file a successful close has left returns
\* a handle on the same header and the same links.
C13_RoundTrip ==
    [][/\ (last'.op = "create" /\ result' = "Ok") =>
            /\ disk'.header = [magic |-> HEADER_MAGIC, data_size |-> ptype.size,
                               heads |-> last'.from, nodes |-> last'.anchor.idx]
            /\ disk'.header.heads >= 1
            /\ disk'.len = file_size(ptype, disk'.header)
       /\ (handle = "open" /\ last'.op = "close") => disk' = disk
       /\ (last.op = "close" /\ result = "Ok" /\ last'.op = "open" /\ last'.fault = "none") =>
            (result' = "Ok" /\ handle' = "open" /\ mapped' /\ disk' = disk)
      ]_vars

\* open has returned a handle on a file with the links create gives two
\* heads and some nodes, its first handle closed or dropped.
C13_Witness ==
    /\ last.op = "open" /\ last.fault = "none" /\ result = "Ok" /\ handle = "open"
    /\ disk.header.heads = 2 /\ disk.header.nodes >= 1
    /\ CreatePost(disk)

\* The system calls and other steps in the log of the last call, in order.
SysNames(l) ==
    LET sl == SelectSeq(l, LAMBDA e : e.field = "sys") IN [i \in 1 .. Len(sl) |-> sl[i].ev]

\* How often `name` stands in the log of the last call.
Count(l, name) == Cardinality({i \in 1 .. Len(SysNames(l)) : SysNames(l)[i] = name})

\* The munmap calls of the last call, failed ones too.
UnmapCalls(l) == Count(l, "munmap") + Count(l, "munmap_failed")

\* C14: a close that succeeds has called munmap once and the drop of the
\* handle has not run; a handle dropped without close has had munmap called
\* once; a create or open that returns a handle has mapped the file once and
\* not unmapped it.  So a handle's life holds one unmap.
C14_SingleUnmap ==
    /\ (last.op = "close" /\ result = "Ok") =>
        (UnmapCalls(log) = 1 /\ Count(log, "drop") = 0 /\ ~mapped)
    /\ last.op = "drop" =>
        (UnmapCalls(log) = 1 /\ Count(log, "drop") = 1 /\ (result = "unit" => ~mapped))
    /\ (last.op \in {"open", "create"} /\ result = "Ok") =>
        (UnmapCalls(log) = 0 /\ Count(log, "mmap") = 1 /\ mapped)

\* A handle made by create has been closed, its one munmap succeeding.
C14_Witness ==
    /\ last.op = "close" /\ result = "Ok"
    /\ SysNames(log) = <<"munmap">>
    /\ handle = "closed" /\ ~mapped
    /\ CreatePost(disk) /\ disk.header.nodes >= 1

\* C15: a close whose munmap fails returns the error: the process is not
\* aborted, and munmap is not called again on that path.
C15_CloseSurfacesError ==
    (last.op = "close" /\ last.fault = "munmap") =>
        (result = "OsError" /\ ~aborted /\ UnmapCalls(log) = 1)

\* The last call was an open or a create that returned an error.
FailedOpen == last.op \in {"open", "create"} /\ result \notin {"Ok", "abort"}

\* C16: after an open or a create that returned an error the caller holds no
\* handle from it, the file is not mapped (a mapping that was made has been
\* unmapped), the descriptor is closed and the lock is free.
C16_FailedOpenReleases ==
    FailedOpen =>
        /\ handle # "open"
        /\ ~mapped
        /\ Count(log, "mmap") = Count(log, "munmap")
        /\ Count(log, "munmap_failed") = 0
        /\ Count(log, "flock") <= Count(log, "close_fd")
        /\ lock_owner = 0

\* open has mapped a file written for another payload type, returned
\* WrongDataType, and left the file unmapped and unlocked.
C16_Witness ==
    /\ last.op = "open" /\ result = "WrongDataType"
    /\ SysNames(log) = <<"flock", "seek", "mmap", "read_header", "munmap", "close_fd">>
    /\ ~mapped /\ lock_owner = 0 /\ handle = "none"

\* C17: in open the lock comes first, then the measuring of the length, then
\* the map, then the read of the header; a file shorter than the header is
\* rejected with neither a map nor a read of the header.
C17_LengthCheckFirst ==
    last.op \in {"open", "create"} =>
        LET ev == SysNames(log) IN
        /\ \A i \in 1 .. Len(ev) :
            /\ ev[i] \in {"seek", "seek_failed"} => (i = 2 /\ ev[1] = "flock")
            /\ ev[i] \in {"mmap", "mmap_failed"} =>
                (i = 3 /\ ev[2] = "seek" /\ disk.len >= SIZE_OF_HEADER)
            /\ ev[i] = "read_header" => (i = 4 /\ ev[3] = "mmap")
        /\ (disk.len < SIZE_OF_HEADER /\ Count(log, "seek") = 1) =>
            (result = "NotInitialized" /\ ev = <<"flock", "seek", "close_fd">>)

\* open has rejected a file one byte shorter than the header after the lock
\* and the seek alone.
C17_Witness ==
    /\ last.op = "open" /\ result = "NotInitialized"
    /\ disk.len = SIZE_OF_HEADER - 1
    /\ disk.header.magic = HEADER_MAGIC
    /\ SysNames(log) = <<"flock", "seek", "close_fd">>

\* The last call was a move that wrote to the file: a relink.
Relinked == IsMove /\ HasWrite(log)

\* The last move, made again on the file it was made on.
Retraced ==
    IF last.op = "move_before"
    THEN move_before(Start(pre), last.from, last.anchor)
    ELSE move_after(Start(pre), last.from, last.anchor)

\* Some slot of the image breaks the symmetry of the links.
Asymmetric(img) == \E X \in Slots(img) : ~SymmetricAt(img, X)

\* C18: a relink makes five writes, and the file as it stands after each of
\* the first four (unlink forward, unlink backward, reposition, splice
\* forward) has a slot that breaks the symmetry of the links; the file after
\* the fifth write is the one the call leaves, with all links symmetric.
C18_NotCrashAtomic ==
    Relinked =>
        LET t == Retraced.trace IN
        /\ Len(t) = 5
        /\ \A k \in 1 .. 4 : Asymmetric(t[k])
        /\ t[5] = disk
        /\ WellFormed(disk) /\ WellFormed(pre)

\* A relink between two lists whose five writes went to five slots.
C18_Witness ==
    /\ Relinked /\ result = "unit"
    /\ Len(Retraced.trace) = 5
    /\ Cardinality({log[i].slot : i \in {j \in 1 .. Len(log) : log[j].ev = "write"}}) = 5
    /\ Asymmetric(Retraced.trace[4])

\* The slots a relink of node from_idx may write: the node, the neighbours it
\* had before and the neighbours it has after.
RelinkSlots(before, after, from_idx) ==
    {LinkNode(from_idx),
     neighbors(before, LinkNode(from_idx)).previous, neighbors(before, LinkNode(from_idx)).next,
     neighbors(after, LinkNode(from_idx)).previous, neighbors(after, LinkNode(from_idx)).next}

\* The writes of the call went to link fields of the relink's slots, and the
\* file differs from the one before in the links of these slots at most.
RelinkFrame(before, after, call, l) ==
    LET allowed == RelinkSlots(before, after, call.from) IN
    /\ Cardinality(allowed) <= 5
    /\ \A i \in 1 .. Len(l) :
        l[i].ev = "write" =>
            (l[i].slot \in allowed /\ l[i].field \in {"previous", "next", "link"})
    /\ \A X \in Slots(before) \ allowed : link(after, X) = link(before, X)
    /\ \A n \in 0 .. (before.header.nodes - 1) :
        after.nodes[n].contents = before.nodes[n].contents
    /\ after.header = before.header
    /\ after.len = before.len

\* C19: a move that writes to the file writes link fields of at most five
\* slots, the moved node, its two old and its two new neighbours, and leaves
\* every other link, every payload and the header as they were; and no call
\* of any sequence changes the header (magic, data_size, heads, nodes) or the
\* length of the file, which stay as create wrote them.
C19_RelinkFrame ==
    [][/\ disk'.header = disk.header
       /\ disk'.len = disk.len
       /\ disk'.header.magic = HEADER_MAGIC
       /\ disk'.header.data_size = ptype.size
       /\ (last'.op \in {"move_before", "move_after"} /\ HasWrite(log')) =>
            RelinkFrame(disk, disk', last', log')
      ]_vars

\* A relink on a list with a payload written before and with a slot that is
\* none of the relink's.
C19_Witness ==
    /\ Relinked /\ result = "unit"
    /\ Slots(pre) \ RelinkSlots(pre, disk, last.from) # {}
    /\ \E n \in 0 .. (pre.header.nodes - 1) : pre.nodes[n].contents = 1
    /\ RelinkFrame(pre, disk, last, log)

\* C20: while one process runs create, a handle that open has returned to
\* another process is on a file whose heads and nodes are all linked: the
\* links are valid and symmetric and the lists cover the nodes.
C20_CreateAtomic == Holders # {} => (WellFormed(disk) /\ Covered(disk))

====
